---------------------------- MODULE Spec2Model ----------------------------
(***************************************************************************)
(* A model of scripts/build-singlefile.py: the import flattener, the       *)
(* import-map builder and the HTML injector.                               *)
(*                                                                         *)
(* Text is a sequence of tokens.  A token is either one character that the *)
(* code treats specially (space, newline, quote, slash, backslash, ...) or *)
(* a word of plain characters ("import", "from", "c", ".js", "..").  The   *)
(* regular expressions and str.replace of the source work on these         *)
(* sequences exactly as they work on characters, occurrences inside a word *)
(* excepted.                                                               *)
(***************************************************************************)
EXTENDS Integers, Sequences, FiniteSets, TLC

VARIABLES
  pc,         \* position of main(): "parse", "loop", then "done", "exit2"
              \* (parser.error) or "raised" (an exception left main)
  args,       \* the command line as parser.parse_args() returns it
  idx,        \* index of the next input file of the loop of main
  importmap,  \* importmap["imports"]: sequence of [key, value], insertion order
  writer,     \* history: for each entry of importmap, the loop index that wrote it
  stdout,     \* what print() wrote: [written, text]
  output,     \* args.output_file on disk: [written, text]
  err,        \* why the run ended early, "" when it did not
  fpc,        \* position of the flattening of one script
  ffile,      \* the script's path as given on the command line
  ftext,      \* the script's text as read_file returned it
  fcontent,   \* the local variable content of main, lines 179-194
  fin         \* history: the content flatten_imports was called with

vars == <<pc, args, idx, importmap, writer, stdout, output, err,
          fpc, ffile, ftext, fcontent, fin>>
mainvars == <<pc, args, idx, importmap, writer, stdout, output, err>>
flatvars == <<fpc, ffile, ftext, fcontent, fin>>

-----------------------------------------------------------------------------
(* Bounds *)
MaxStmts == 2
MaxFiles == 2

-----------------------------------------------------------------------------
(* Tokens *)
SP == " "
NL == "\n"
CRLF == "\r\n"
DQ == "\""
SQ == "'"
SLASH == "/"
BS == "\\"
DOT == "."
DOTDOT == ".."
EACUTE == "e-acute"     \* U+00E9, bytes C3 A9
BADBYTE == "byte-FF"    \* a byte that is not valid UTF-8
SOURCEMAP == "//# sourceMappingURL="
ENDHEAD == "</head>"

\* \s of the regular expressions
IsSpace(t) == t \in {SP, NL}
\* . of the regular expressions (re.MULTILINE does not change it)
IsDot(t) == t # NL
IsQuote(t) == t \in {DQ, SQ}

Min(S) == CHOOSE x \in S : \A y \in S : x <= y
Max(S) == CHOOSE x \in S : \A y \in S : x >= y

\* the tokens s[a..b], empty when a > b
Slice(s, a, b) == [k \in 1..(b - a + 1) |-> s[a + k - 1]]

\* the texts of ss one after the other (halved, to keep the evaluation shallow)
RECURSIVE Concat(_)
Concat(ss) ==
  IF ss = <<>> THEN <<>>
  ELSE IF Len(ss) = 1 THEN ss[1]
  ELSE LET h == Len(ss) \div 2
       IN Concat(SubSeq(ss, 1, h)) \o Concat(SubSeq(ss, h + 1, Len(ss)))

\* sep.join(parts)
RECURSIVE Join(_, _)
Join(parts, sep) ==
  IF parts = <<>> THEN <<>>
  ELSE IF Len(parts) = 1 THEN parts[1]
  ELSE parts[1] \o <<sep>> \o Join(Tail(parts), sep)

\* text.split(sep): the segments between the separators, empty ones kept
RECURSIVE Split(_, _)
Split(text, sep) ==
  LET P == {k \in 1..Len(text) : text[k] = sep}
  IN IF P = {} THEN <<text>>
     ELSE <<Slice(text, 1, Min(P) - 1)>>
            \o Split(Slice(text, Min(P) + 1, Len(text)), sep)

\* text.startswith(prefix)
StartsWith(text, prefix) ==
  /\ Len(text) >= Len(prefix)
  /\ Slice(text, 1, Len(prefix)) = prefix

\* the first index at or after from where old occurs in text, 0 when none
Find(text, old, from) ==
  LET P == {k \in from..(Len(text) - Len(old) + 1) :
              Slice(text, k, k + Len(old) - 1) = old}
  IN IF P = {} THEN 0 ELSE Min(P)

\* text.replace(old, new, count=1)
ReplaceFirst(text, old, new) ==
  LET k == Find(text, old, 1)
  IN IF k = 0 THEN text
     ELSE Slice(text, 1, k - 1) \o new \o Slice(text, k + Len(old), Len(text))

-----------------------------------------------------------------------------
(* Paths: pathlib and os.path *)

\* PurePosixPath(text): the parts of the path, "." and empty segments dropped
PathParts(text) ==
  SelectSeq(Split(text, SLASH), LAMBDA seg : seg # <<>> /\ seg # <<DOT>>)

PurePosixPath(text) ==
  [abs |-> text # <<>> /\ text[1] = SLASH, parts |-> PathParts(text)]

\* path.parent
Parent(p) ==
  IF p.parts = <<>> THEN p
  ELSE [abs |-> p.abs, parts |-> SubSeq(p.parts, 1, Len(p.parts) - 1)]

\* path.joinpath(other)
JoinPath(p, other) ==
  IF other.abs THEN other
  ELSE [abs |-> p.abs, parts |-> p.parts \o other.parts]

\* the loop of posixpath.normpath over the components
RECURSIVE NormComps(_, _, _)
NormComps(comps, new, abs) ==
  IF comps = <<>> THEN new
  ELSE LET comp == Head(comps)
           rest == Tail(comps)
       IN IF \/ comp # <<DOTDOT>>
             \/ (~abs /\ new = <<>>)
             \/ (new # <<>> /\ new[Len(new)] = <<DOTDOT>>)
          THEN NormComps(rest, new \o <<comp>>, abs)
          ELSE IF new # <<>>
               THEN NormComps(rest, SubSeq(new, 1, Len(new) - 1), abs)
               ELSE NormComps(rest, new, abs)

\* str(path)
PathStr(p) ==
  IF p.parts = <<>> THEN (IF p.abs THEN <<SLASH>> ELSE <<DOT>>)
  ELSE (IF p.abs THEN <<SLASH>> ELSE <<>>) \o Join(p.parts, SLASH)

\* os.path.normpath(path), as text
normpath(p) ==
  PathStr([abs |-> p.abs, parts |-> NormComps(p.parts, <<>>, p.abs)])

\* whether file.relative_to(root) raises ValueError (both are sequences of parts)
NotRelativeTo(file, root) ==
  ~(Len(file) >= Len(root) /\ SubSeq(file, 1, Len(root)) = root)

\* file.relative_to(root)
relative_to(file, root) ==
  [abs |-> FALSE, parts |-> SubSeq(file, Len(root) + 1, Len(file))]

-----------------------------------------------------------------------------
(* The regular expression import_pattern *)

\* the first index at or after j that holds no \s (Len(s) + 1 when none)
SpaceEnd(s, j) ==
  Min({k \in j..(Len(s) + 1) : k = Len(s) + 1 \/ ~IsSpace(s[k])})

\* where \s+from\s+['"](.*?)['"] matches from index j on: the indexes of the
\* two quotes, or <<>> when it does not match
FromClause(s, j) ==
  LET n == Len(s)
      r == SpaceEnd(s, j)
      o == IF r + 1 <= n THEN SpaceEnd(s, r + 1) ELSE n + 1
      C == {c \in (o + 1)..n : IsQuote(s[c])}
  IN IF /\ j <= n /\ IsSpace(s[j])
        /\ r <= n /\ s[r] = "from"
        /\ r + 1 <= n /\ IsSpace(s[r + 1])
        /\ o <= n /\ IsQuote(s[o])
        /\ C # {}
        /\ \A t \in (o + 1)..(Min(C) - 1) : IsDot(s[t])
     THEN <<o, Min(C)>>
     ELSE <<>>

\* the match of import_pattern that starts at index i, as the backtracking
\* matcher finds it: the first \s+ as long as possible, then .*? as short as
\* possible
MatchAt(s, i) ==
  LET n == Len(s)
      kmax == SpaceEnd(s, i + 1) - (i + 1)
      J(k) == {j \in (i + k + 1)..n :
                 /\ \A t \in (i + k + 1)..(j - 1) : IsDot(s[t])
                 /\ FromClause(s, j) # <<>>}
      K == {k \in 1..kmax : J(k) # {}}
  IN IF s[i] = "import" /\ K # {}
     THEN LET q == FromClause(s, Min(J(Max(K))))
          IN [ok |-> TRUE, start |-> i, open |-> q[1], close |-> q[2]]
     ELSE [ok |-> FALSE, start |-> i, open |-> 0, close |-> 0]

\* re.finditer(import_pattern, s, re.MULTILINE) from index pos on
RECURSIVE finditer(_, _)
finditer(s, pos) ==
  LET S == {i \in pos..Len(s) : MatchAt(s, i).ok}
  IN IF S = {} THEN <<>>
     ELSE LET m == MatchAt(s, Min(S))
          IN <<m>> \o finditer(s, m.close + 1)

\* match.group(2)
ImportPathOf(s, m) == Slice(s, m.open + 1, m.close - 1)

HTTP == <<"http:", SLASH, SLASH>>
HTTPS == <<"https:", SLASH, SLASH>>

\* (mutant) only http:// passes through
IsAbsoluteUrlHttpOnly(import_path) == StartsWith(import_path, HTTP)

\* import_path.startswith("http://") or import_path.startswith("https://")
IsAbsoluteUrl(import_path) ==
  StartsWith(import_path, HTTP) \/ StartsWith(import_path, HTTPS)

-----------------------------------------------------------------------------
(* flatten_imports *)

\* (mutant) the import path joined to the script's path, not to its directory
FlatImportPathNoParent(path, import_path) ==
  normpath(JoinPath(path, PurePosixPath(import_path)))

\* flat_import_path of one match
FlatImportPath(path, import_path) ==
  normpath(JoinPath(Parent(path), PurePosixPath(import_path)))

\* content.replace(match[0], f"{pre}{flat_import_path}{post}", count=1)
ReplaceMatch(content, orig, m, flat) ==
  ReplaceFirst(content,
               Slice(orig, m.start, m.close),
               Slice(orig, m.start, m.open) \o flat \o <<orig[m.close]>>)

\* the loop over the matches: they are matches of the text flatten_imports was
\* given, each replacement is made in the text as rewritten so far
RECURSIVE FlattenLoop(_, _, _, _)
FlattenLoop(ms, path, orig, content) ==
  IF ms = <<>> THEN content
  ELSE LET m == Head(ms)
           import_path == ImportPathOf(orig, m)
       IN IF IsAbsoluteUrl(import_path)
          THEN FlattenLoop(Tail(ms), path, orig, content)
          ELSE FlattenLoop(Tail(ms), path, orig,
                 ReplaceMatch(content, orig, m, FlatImportPath(path, import_path)))

flatten_imports(file_path, content) ==
  FlattenLoop(finditer(content, 1), file_path, content, content)

\* re.sub(r"//# sourceMappingURL=.*", "", content, count=1)
StripSourceMap(content) ==
  LET P == {k \in 1..Len(content) : content[k] = SOURCEMAP}
  IN IF P = {} THEN content
     ELSE LET k == Min(P)
              e == Min({t \in k..(Len(content) + 1) :
                          t = Len(content) + 1 \/ ~IsDot(content[t])})
          IN Slice(content, 1, k - 1) \o Slice(content, e, Len(content))

-----------------------------------------------------------------------------
(* The scripts and files the flattening is run on *)

\* --root, as parts: /proj
Root == <<<<"proj">>>>

Part(name) == <<name>>
JsName(stem) == <<stem, ".js">>

\* import x from "<path>", with the quote q
ImportStmt(q, path) == <<"import", SP, "x", SP, "from", SP, q>> \o path \o <<q>>

UpC == <<DOTDOT, SLASH, "c", ".js">>
HereC == <<DOT, SLASH, "c", ".js">>
UpAC == <<DOTDOT, SLASH, "a", SLASH, "c", ".js">>
AC == <<"a", SLASH, "c", ".js">>
UpProjC == <<DOTDOT, SLASH, "proj", SLASH, "c", ".js">>
CdnM == HTTP \o <<"h", SLASH, "m", ".js">>
CdnS == HTTPS \o <<"h", SLASH, "m", ".js">>

RelativeStmts ==
  {ImportStmt(DQ, UpC), ImportStmt(SQ, HereC), ImportStmt(DQ, UpAC),
   ImportStmt(DQ, AC), ImportStmt(DQ, UpProjC)}
UrlStmts == {ImportStmt(DQ, CdnM), ImportStmt(SQ, CdnS)}
OtherStmts == {<<SOURCEMAP, "b", ".js", ".map">>, <<"x", "(", ")", ";">>}
Stmts == RelativeStmts \cup UrlStmts \cup OtherStmts

\* the scripts: up to MaxStmts statements, one per line
Scripts ==
  {Join(ss, NL) : ss \in UNION {[1..n -> Stmts] : n \in 1..MaxStmts}}

\* the script paths given on the command line, as parts
ScriptFiles ==
  {Root \o <<JsName("b")>>,
   Root \o <<Part("a"), JsName("b")>>,
   Root \o <<Part("a"), Part("d"), JsName("b")>>}

-----------------------------------------------------------------------------
(* The flattening of one script: main, lines 178-194 *)

FlatInit ==
  /\ fpc = "read"
  /\ ffile \in ScriptFiles
  /\ ftext \in Scripts
  /\ fcontent = ftext
  /\ fin = <<>>

\* line 193
SubSourceMap ==
  /\ fpc = "read"
  /\ fcontent' = StripSourceMap(fcontent)
  /\ fpc' = "stripped"
  /\ UNCHANGED <<ffile, ftext, fin>>

\* line 194
FlattenImports ==
  /\ fpc = "stripped"
  /\ fin' = fcontent
  /\ fcontent' = flatten_imports(relative_to(ffile, Root), fcontent)
  /\ fpc' = "flat"
  /\ UNCHANGED <<ffile, ftext>>

MainIdle ==
  /\ pc = "idle"
  /\ args = <<>>
  /\ idx = 0
  /\ importmap = <<>>
  /\ writer = <<>>
  /\ stdout = [written |-> FALSE, text |-> <<>>]
  /\ output = [written |-> FALSE, text |-> <<>>]
  /\ err = ""

InitFlatten == FlatInit /\ MainIdle
NextFlatten ==
  \/ SubSourceMap /\ UNCHANGED mainvars
  \/ FlattenImports /\ UNCHANGED mainvars
SpecFlatten == InitFlatten /\ [][NextFlatten]_vars

-----------------------------------------------------------------------------
(* Properties of the flattening *)

frelpath == relative_to(ffile, Root)

\* an import path that starts with http:// or https://
UrlPath(import_path) ==
  /\ Len(import_path) >= 3
  /\ import_path[1] \in {"http:", "https:"}
  /\ import_path[2] = SLASH /\ import_path[3] = SLASH

\* the matches of text whose import path is relative (no absolute URL)
RelativeMatches(text) ==
  SelectSeq(finditer(text, 1), LAMBDA m : ~UrlPath(ImportPathOf(text, m)))

\* the import statements of text whose path is an absolute URL, in order
UrlStatements(text) ==
  LET ms == SelectSeq(finditer(text, 1),
                      LAMBDA m : UrlPath(ImportPathOf(text, m)))
  IN [n \in 1..Len(ms) |-> Slice(text, ms[n].start, ms[n].close)]

\* the file an import path names on disk: the path resolved against the real
\* directory of the importing file (absolute parts)
TargetFile(file, import_path) ==
  NormComps(SubSeq(file, 1, Len(file) - 1) \o PathParts(import_path), <<>>, TRUE)

\* the flat specifier main registers a file of the root under
FlatSpecifier(file) == PathStr(relative_to(file, Root))

\* text with the path of every relative import replaced where it stands by its
\* own resolved path (last match first, so that the indexes stay right)
RECURSIVE InPlace(_, _, _)
InPlace(ms, path, text) ==
  IF ms = <<>> THEN text
  ELSE LET m == ms[Len(ms)]
           flat == FlatImportPath(path, ImportPathOf(text, m))
       IN InPlace(SubSeq(ms, 1, Len(ms) - 1), path,
                  Slice(text, 1, m.open) \o flat \o Slice(text, m.close, Len(text)))

\* text without its first source-map comment, line by line
MinusSourceMap(text) ==
  LET lines == Split(text, NL)
      Has(l) == \E k \in 1..Len(l) : l[k] = SOURCEMAP
      L == {n \in 1..Len(lines) : Has(lines[n])}
      Cut(l) == SubSeq(l, 1, Min({k \in 1..Len(l) : l[k] = SOURCEMAP}) - 1)
  IN IF L = {} THEN text
     ELSE Join([n \in 1..Len(lines) |->
                 IF n = Min(L) THEN Cut(lines[n]) ELSE lines[n]], NL)

\* C1 (as claimed): every relative import of the script whose target file lies
\* under the root is rewritten to the flat specifier of that target file.
C1_ResolutionPreserving ==
  fpc = "flat" =>
    LET ins == finditer(fin, 1)
        outs == finditer(fcontent, 1)
    IN /\ Len(outs) = Len(ins)
       /\ \A n \in 1..Len(ins) :
            LET import_path == ImportPathOf(fin, ins[n])
                target == TargetFile(ffile, import_path)
            IN (~UrlPath(import_path) /\ ~NotRelativeTo(target, Root))
                 => ImportPathOf(fcontent, outs[n]) = FlatSpecifier(target)

C5File == Root \o <<Part("a"), JsName("b")>>

\* C5 (as claimed): /proj/a/b.js holding import x from "../c.js" is flattened
\* to the import path a/c.js.
C5_Original ==
  (fpc = "flat" /\ ffile = C5File /\ ftext = ImportStmt(DQ, UpC))
    => fcontent = ImportStmt(DQ, AC)

\* C5 (amended): /proj/a/b.js holding import x from "../c.js" is flattened to
\* the import path c.js, the specifier of /proj/c.js.
C5_FlattenedToC ==
  (fpc = "flat" /\ ffile = C5File /\ ftext = ImportStmt(DQ, UpC))
    => fcontent = ImportStmt(DQ, <<"c", ".js">>)

C5_Witness ==
  /\ fpc = "flat" /\ ffile = C5File /\ ftext = ImportStmt(DQ, UpC)
  /\ fcontent # fin

\* C6: flattening leaves every absolute-URL import statement as it was, leaves
\* every line without a relative import as it was, and returns a script
\* without relative imports unchanged, so that such a script is registered as
\* its text minus the source-map comment.
C6_OnlyRelativePathsChange ==
  fpc = "flat" =>
    LET ilines == Split(fin, NL)
        olines == Split(fcontent, NL)
    IN /\ UrlStatements(fcontent) = UrlStatements(fin)
       /\ Len(olines) = Len(ilines)
       /\ \A n \in 1..Len(ilines) :
            RelativeMatches(ilines[n]) = <<>> => olines[n] = ilines[n]
       /\ RelativeMatches(fin) = <<>> => fcontent = MinusSourceMap(ftext)

C6_Witness ==
  /\ fpc = "flat"
  /\ UrlStatements(fin) # <<>>
  /\ RelativeMatches(fin) # <<>>
  /\ fcontent # fin

\* C10 (as claimed): after flattening, every matched relative import carries
\* its own resolved path where it stood; none is rewritten twice, none is left.
C10_EachOccurrenceRewrittenOnce ==
  fpc = "flat" => fcontent = InPlace(RelativeMatches(fin), frelpath, fin)

-----------------------------------------------------------------------------
(* The disk the run of main sees *)

XJs == Root \o <<Part("a"), JsName("x")>>
MWasm == Root \o <<<<"m", ".wasm">>>>
TTxt == Root \o <<<<"t", ".txt">>>>
LockedJs == Root \o <<JsName("locked")>>
GoneJs == Root \o <<JsName("gone")>>
BackslashJs == Root \o <<<<"a", BS, "b", ".js">>>>
EacuteJs == Root \o <<<<EACUTE, ".js">>>>
RawTxt == Root \o <<<<"raw", ".txt">>>>
OutsideJs == <<Part("other"), JsName("z")>>

\* the paths the command line may name as input files
InputFiles ==
  {XJs, MWasm, TTxt, LockedJs, GoneJs, BackslashJs, EacuteJs, RawTxt, OutsideJs}

\* paths that do not exist, and files that cannot be opened for reading
Missing == {GoneJs}
Unreadable == {LockedJs}

\* the bytes of each file
FileBytes(file) ==
  CASE file = XJs ->
         ImportStmt(DQ, UpC) \o <<CRLF, SOURCEMAP, "x", ".js", ".map", CRLF>>
           \o ImportStmt(SQ, CdnS)
    [] file = MWasm ->
         <<"asm", BADBYTE, CRLF>> \o ImportStmt(DQ, UpC)
           \o <<NL, SOURCEMAP, "m", ".map">>
    [] file = TTxt ->
         ImportStmt(DQ, UpC) \o <<CRLF, SOURCEMAP, "t", ".map", EACUTE>>
    [] file = RawTxt -> <<"raw", BADBYTE>>
    [] OTHER -> <<"x", "(", ")", ";">>

H1 == <<"h1", ".html">>
H2 == <<"h2", ".html">>
H3 == <<"h3", ".html">>
H4 == <<"h4", ".html">>
HGone == <<"gone", ".html">>

\* the host documents on disk
HostBytes(path) ==
  CASE path = H1 -> <<"<html><head>", "<title>t</title>", ENDHEAD, "<body/></html>">>
    [] path = H2 -> <<"<head>", ENDHEAD, NL, "<!--", ENDHEAD, "-->">>
    [] path = H3 -> <<"<html>", "</HEAD>", "<body/></html>">>
    [] path = H4 -> <<"<head>", CRLF, ENDHEAD, CRLF>>
    [] OTHER -> <<>>

\* an option of the command line: absent (None) or given with a value
Absent == [given |-> FALSE, value |-> <<>>]
Given(v) == [given |-> TRUE, value |-> v]
HtmlOptions == {Absent, Given(<<>>), Given(H1), Given(H2), Given(H3), Given(H4),
                Given(HGone)}

\* bool(option): None and the empty string are false
Truthy(opt) == opt.given /\ opt.value # <<>>

-----------------------------------------------------------------------------
(* mime_type, read_file, the data URI *)

Extensions == {".js", ".wasm", ".txt", ".map", ".html"}

\* file_path.suffix: the last extension of the name, "" when there is none
Suffix(file) ==
  LET name == file[Len(file)]
  IN IF Len(name) >= 2 /\ name[Len(name)] \in Extensions
     THEN name[Len(name)] ELSE ""

mime_type(file_path) ==
  IF Suffix(file_path) = ".js" THEN "application/javascript"
  ELSE IF Suffix(file_path) = ".wasm" THEN "application/wasm"
  ELSE "text/plain"

IsTextMime(mime) == mime \in {"application/javascript", "text/plain"}

\* (mutant) the charset suffix on every MIME type
MimeEncodingAlways(mime) == <<mime, ";charset=utf-8">>

\* mime_encoding
MimeEncoding(mime) ==
  IF ~IsTextMime(mime) THEN <<mime>> ELSE <<mime, ";charset=utf-8">>

\* open(file, "r", encoding="utf-8").read(): universal newlines
DecodeText(bytes) == [k \in 1..Len(bytes) |-> IF bytes[k] = CRLF THEN NL ELSE bytes[k]]

\* (mutant) a file that cannot be loaded is taken as loaded
ReadFailsNever(file_path, mime) == FALSE

\* whether read_file raises: the file cannot be opened, or it is read as text
\* and is not UTF-8
ReadFails(file_path, mime) ==
  \/ file_path \in Unreadable
  \/ IsTextMime(mime) /\ \E k \in 1..Len(FileBytes(file_path)) :
                           FileBytes(file_path)[k] = BADBYTE

read_file(file_path, mime) ==
  IF IsTextMime(mime) THEN DecodeText(FileBytes(file_path))
  ELSE FileBytes(file_path)

\* urllib.parse.quote of one token
QuoteToken(t) ==
  CASE t = SP -> "%20"
    [] t = NL -> "%0A"
    [] t = CRLF -> "%0D%0A"
    [] t = DQ -> "%22"
    [] t = SQ -> "%27"
    [] t = BS -> "%5C"
    [] t = EACUTE -> "%C3%A9"
    [] t = BADBYTE -> "%FF"
    [] t = SOURCEMAP -> "//%23%20sourceMappingURL%3D"
    [] t = "http:" -> "http%3A"
    [] t = "https:" -> "https%3A"
    [] t = "(" -> "%28"
    [] t = ")" -> "%29"
    [] t = ";" -> "%3B"
    [] OTHER -> t

\* urllib.parse.quote(content)
Quote(content) == [k \in 1..Len(content) |-> QuoteToken(content[k])]

\* the loop body of main from the read on: the text registered for the file
Payload(file, relpath, mime) ==
  LET content == read_file(file, mime)
  IN Quote(IF mime = "application/javascript"
           THEN flatten_imports(relpath, StripSourceMap(content))
           ELSE content)

\* f"data:{mime_encoding},{content}"
DataUri(file, relpath, mime) ==
  <<"data:">> \o MimeEncoding(mime) \o <<",">> \o Payload(file, relpath, mime)

\* (mutant) d.setdefault(key, value): the first value of a key stays
SetItemKeepFirst(d, key, value) ==
  IF \E n \in 1..Len(d) : d[n].key = key THEN d
  ELSE Append(d, [key |-> key, value |-> value])

\* d[key] = value on a dict kept as the sequence of its items
SetItem(d, key, value) ==
  IF \E n \in 1..Len(d) : d[n].key = key
  THEN [n \in 1..Len(d) |->
          IF d[n].key = key THEN [key |-> key, value |-> value] ELSE d[n]]
  ELSE Append(d, [key |-> key, value |-> value])

-----------------------------------------------------------------------------
(* get_importmap_script and the injection *)

\* json.dumps of one character of a string (ensure_ascii)
JsonToken(t) ==
  CASE t = BS -> <<BS, BS>>
    [] t = DQ -> <<BS, DQ>>
    [] t = NL -> <<BS, "n">>
    [] t = EACUTE -> <<BS, "u00e9">>
    [] OTHER -> <<t>>

\* json.dumps of a string
JsonString(text) ==
  <<DQ>> \o Concat([k \in 1..Len(text) |-> JsonToken(text[k])]) \o <<DQ>>

Indent(n) == [k \in 1..n |-> SP]

\* json.dumps(importmap, indent=2)
JsonDumps(imports) ==
  LET item(e) == Indent(4) \o JsonString(e.key) \o <<":", SP>> \o JsonString(e.value)
      items == Join([n \in 1..Len(imports) |-> item(imports[n])], ",\n")
  IN IF imports = <<>>
     THEN <<"{", NL>> \o Indent(2) \o <<DQ, "imports", DQ, ":", SP, "{}", NL, "}">>
     ELSE <<"{", NL>> \o Indent(2) \o <<DQ, "imports", DQ, ":", SP, "{", NL>>
            \o items \o <<NL>> \o Indent(2) \o <<"}", NL, "}">>

get_importmap_script(imports) ==
  <<"<script type=\"importmap\">", NL>> \o JsonDumps(imports) \o <<NL, "</script>">>

\* the escapes re.sub knows in a replacement template
TemplateEscape(t) ==
  CASE t = BS -> <<BS>>
    [] t = "n" -> <<NL>>
    [] OTHER -> <<BS, t>>

\* whether the backslash at index k of the template starts an escape: the
\* backslashes before it pair up
StartsEscape(repl, k) ==
  /\ repl[k] = BS
  /\ LET j == Max({i \in 0..(k - 1) : i = 0 \/ repl[i] # BS})
     IN (k - 1 - j) % 2 = 0

\* whether re.sub raises re.error for the template: a backslash before a
\* letter that is no known escape, or at the end
TemplateError(repl) ==
  \E k \in 1..Len(repl) :
    /\ StartsEscape(repl, k)
    /\ (k = Len(repl) \/ repl[k + 1] \in {"u00e9"})

\* the replacement text re.sub makes of the template
ExpandTemplate(repl) ==
  Concat([k \in 1..Len(repl) |->
            IF StartsEscape(repl, k) /\ k < Len(repl) THEN TemplateEscape(repl[k + 1])
            ELSE IF k > 1 /\ StartsEscape(repl, k - 1) THEN <<>>
            ELSE <<repl[k]>>])

\* re.sub(r"</head>", repl, html, count=1)
SubHead(repl, html) == ReplaceFirst(html, <<ENDHEAD>>, ExpandTemplate(repl))

-----------------------------------------------------------------------------
(* parse_args and main.  The run is given no --output: output stands for   *)
(* the file html_file.with_suffix(".onefile.html") names.                  *)

\* the error parse_args ends the run with, "" when it returns
ParseError(a) ==
  IF a.map_only = Truthy(a.html_file) THEN "mode"
  ELSE IF \E n \in 1..Len(a.input_files) : a.input_files[n] \in Missing
       THEN "input"
  ELSE IF Truthy(a.html_file) /\ a.html_file.value = HGone THEN "html"
  ELSE ""

Init ==
  /\ pc = "parse"
  /\ args \in [map_only : BOOLEAN,
               html_file : HtmlOptions,
               input_files : UNION {[1..n -> InputFiles] : n \in 1..MaxFiles}]
  /\ idx = 0
  /\ importmap = <<>>
  /\ writer = <<>>
  /\ stdout = [written |-> FALSE, text |-> <<>>]
  /\ output = [written |-> FALSE, text |-> <<>>]
  /\ err = ""
  /\ fpc = "idle" /\ ffile = <<>> /\ ftext = <<>> /\ fcontent = <<>> /\ fin = <<>>

\* parse_args calls parser.error: sys.exit(2)
ParseArgsRejects ==
  /\ pc = "parse"
  /\ ParseError(args) # ""
  /\ pc' = "exit2"
  /\ err' = ParseError(args)
  /\ UNCHANGED <<args, idx, importmap, writer, stdout, output>>

\* parse_args returns; main makes the empty import map
ParseArgsReturns ==
  /\ pc = "parse"
  /\ ParseError(args) = ""
  /\ pc' = "loop"
  /\ idx' = 1
  /\ importmap' = <<>>
  /\ UNCHANGED <<args, writer, stdout, output, err>>

\* the call of the loop body that raises for the file, "" when none does
LoadError(file) ==
  IF NotRelativeTo(file, Root) THEN "relative_to"
  ELSE IF ReadFails(file, mime_type(file)) THEN "read_file"
  ELSE ""

\* one pass of the loop of main, lines 170-197
LoadFile ==
  /\ pc = "loop"
  /\ idx <= Len(args.input_files)
  /\ LET file == args.input_files[idx]
         mime == mime_type(file)
         relpath == relative_to(file, Root)
     IN /\ LoadError(file) = ""
        /\ importmap' = SetItem(importmap, PathStr(relpath), DataUri(file, relpath, mime))
        /\ writer' = SetItem(writer, PathStr(relpath), idx)
  /\ idx' = idx + 1
  /\ UNCHANGED <<pc, args, stdout, output, err>>

\* the loop body raises: the exception ends the run
LoadFileRaises ==
  /\ pc = "loop"
  /\ idx <= Len(args.input_files)
  /\ LoadError(args.input_files[idx]) # ""
  /\ pc' = "raised"
  /\ err' = LoadError(args.input_files[idx])
  /\ UNCHANGED <<args, idx, importmap, writer, stdout, output>>

\* lines 199-203
PrintMap ==
  /\ pc = "loop"
  /\ idx > Len(args.input_files)
  /\ args.map_only
  /\ stdout' = [written |-> TRUE, text |-> get_importmap_script(importmap)]
  /\ pc' = "done"
  /\ UNCHANGED <<args, idx, importmap, writer, output, err>>

\* the template of line 208
HeadTemplate == get_importmap_script(importmap) \o <<NL, ENDHEAD>>

\* lines 199-210
WriteBundle ==
  /\ pc = "loop"
  /\ idx > Len(args.input_files)
  /\ ~args.map_only
  /\ Truthy(args.html_file)
  /\ ~TemplateError(HeadTemplate)
  /\ output' = [written |-> TRUE,
                text |-> SubHead(HeadTemplate, DecodeText(HostBytes(args.html_file.value)))]
  /\ pc' = "done"
  /\ UNCHANGED <<args, idx, importmap, writer, stdout, err>>

\* re.sub raises re.error at line 208, before the output file is opened
InjectRaises ==
  /\ pc = "loop"
  /\ idx > Len(args.input_files)
  /\ ~args.map_only
  /\ Truthy(args.html_file)
  /\ TemplateError(HeadTemplate)
  /\ pc' = "raised"
  /\ err' = "re.error"
  /\ UNCHANGED <<args, idx, importmap, writer, stdout, output>>

Next ==
  \/ ParseArgsRejects /\ UNCHANGED flatvars
  \/ ParseArgsReturns /\ UNCHANGED flatvars
  \/ LoadFile /\ UNCHANGED flatvars
  \/ LoadFileRaises /\ UNCHANGED flatvars
  \/ PrintMap /\ UNCHANGED flatvars
  \/ WriteBundle /\ UNCHANGED flatvars
  \/ InjectRaises /\ UNCHANGED flatvars

Spec == Init /\ [][Next]_vars

-----------------------------------------------------------------------------
(* Properties of the run of main *)

\* the input files the loop has gone through
Processed == 1..(idx - 1)

\* the flat specifier of the n-th input file
SpecifierOf(n) == PathStr(relative_to(args.input_files[n], Root))

HasHead(html) == \E k \in 1..Len(html) : html[k] = ENDHEAD

BundleMode == ~args.map_only /\ Truthy(args.html_file)

NothingEmitted == ~stdout.written /\ ~output.written

\* the input files that cannot be loaded: no permission to read, text that is
\* not UTF-8
CannotLoad == {LockedJs, RawTxt}

\* C2 (as claimed): in bundling mode a host document without </head> makes the
\* run abort, and the output file is not written.
C2_AbortsWithoutHead ==
  (BundleMode /\ ~HasHead(HostBytes(args.html_file.value)))
    => (pc # "done" /\ ~output.written)

\* C3: stdout and the output file are written only after every input file has
\* been loaded and registered; a file that cannot be loaded ends the run at
\* that file with nothing emitted, and is never skipped.
C3_NoPartialBundle ==
  /\ ~NothingEmitted =>
       /\ idx = Len(args.input_files) + 1
       /\ \A n \in 1..Len(args.input_files) :
            /\ args.input_files[n] \notin CannotLoad
            /\ \E e \in 1..Len(importmap) : importmap[e].key = SpecifierOf(n)
  /\ (pc = "raised" /\ err = "read_file") =>
       /\ NothingEmitted
       /\ idx <= Len(args.input_files)
       /\ args.input_files[idx] \in CannotLoad
       /\ \A n \in Processed : args.input_files[n] \notin CannotLoad
  /\ (pc = "loop" /\ idx <= Len(args.input_files)
        /\ args.input_files[idx] \in CannotLoad) => ~ENABLED LoadFile

C3_Witness ==
  /\ pc = "raised" /\ err = "read_file"
  /\ idx = 2
  /\ Len(importmap) = 1
  /\ NothingEmitted

\* C4 (as claimed): --map-only together with --source, or neither of them, is
\* rejected as a configuration error before any file is read or written;
\* exactly one of them passes the mode check.
C4_ModesExclusive ==
  pc # "parse" =>
    IF args.map_only = args.html_file.given
    THEN /\ pc = "exit2" /\ err = "mode"
         /\ idx = 0 /\ importmap = <<>> /\ NothingEmitted
    ELSE err # "mode"

\* C7 (as claimed): the output written for a host document with </head> is the
\* host document with the import-map tag inserted before the first </head>
\* and nothing else changed.
C7_OnlyTagInserted ==
  (pc = "done" /\ output.written /\ HasHead(HostBytes(args.html_file.value))) =>
    LET host == HostBytes(args.html_file.value)
        k == Min({i \in 1..Len(host) : host[i] = ENDHEAD})
    IN output.text = Slice(host, 1, k - 1)
                       \o get_importmap_script(importmap) \o <<NL>>
                       \o Slice(host, k, Len(host))

\* C8: the import map holds one entry per flat specifier of the files gone
\* through, each written by the last of these files with that specifier; a
\* repeated specifier raises nothing.
C8_LastWriteWins ==
  pc \in {"loop", "done", "raised"} =>
    /\ \A m, n \in 1..Len(importmap) : importmap[m].key = importmap[n].key => m = n
    /\ {importmap[e].key : e \in 1..Len(importmap)} = {SpecifierOf(n) : n \in Processed}
    /\ Len(writer) = Len(importmap)
    /\ \A e \in 1..Len(importmap) :
         LET last == Max({n \in Processed : SpecifierOf(n) = importmap[e].key})
             file == args.input_files[last]
         IN /\ writer[e].key = importmap[e].key
            /\ writer[e].value = last
            /\ importmap[e].value =
                 DataUri(file, relative_to(file, Root), mime_type(file))
    /\ (pc = "raised" /\ err # "re.error") =>
         args.input_files[idx] \in CannotLoad \cup {OutsideJs}

C8_Witness ==
  /\ pc = "loop"
  /\ idx = 3
  /\ args.input_files[1] = args.input_files[2]
  /\ Len(importmap) = 1
  /\ writer[1].value = 2

IsWasm(file) ==
  LET name == file[Len(file)]
  IN Len(name) >= 2 /\ name[Len(name)] = ".wasm"

IsJs(file) ==
  LET name == file[Len(file)]
  IN Len(name) >= 2 /\ name[Len(name)] = ".js"

\* C9: an entry carries ;charset=utf-8 exactly when its file is not .wasm; a
\* .wasm entry is data:application/wasm, followed by the percent-encoding of
\* the bytes of the file as they are on disk.
C9_CharsetOnlyForText ==
  \A e \in 1..Len(importmap) :
    LET file == args.input_files[writer[e].value]
        uri == importmap[e].value
    IN /\ (\E k \in 1..Len(uri) : uri[k] = ";charset=utf-8") <=> ~IsWasm(file)
       /\ IsWasm(file) =>
            uri = <<"data:", "application/wasm", ",">> \o Quote(FileBytes(file))
       /\ ~IsWasm(file) =>
            SubSeq(uri, 1, 4) =
              <<"data:",
                IF IsJs(file) THEN "application/javascript" ELSE "text/plain",
                ";charset=utf-8", ",">>

C9_Witness ==
  /\ pc = "done"
  /\ \E e \in 1..Len(importmap) : IsWasm(args.input_files[writer[e].value])
  /\ \E e \in 1..Len(importmap) : IsJs(args.input_files[writer[e].value])

=============================================================================
